---------------------------- MODULE Spec2Model ----------------------------
(***************************************************************************)
(* A model of class TwoFactorAuth (src/index.js): generateSecretKey,       *)
(* generateOTP and verifyOTP.  The class keeps no state between calls, so  *)
(* the state of the model is the last call made (its arguments and the     *)
(* clock it read), how that call ended (a returned value or a thrown       *)
(* error) and what its body had built by then.                             *)
(*                                                                         *)
(* JavaScript strings are sequences of one-character strings, a Buffer is  *)
(* a sequence of bytes (index i of the code is index i+1 here), and a      *)
(* statement that may throw yields a completion record.                    *)
(***************************************************************************)
EXTENDS Integers, Sequences, FiniteSets

VARIABLES call, ret, trace

vars == <<call, ret, trace>>

---------------------------------------------------------------------------
(* Bounds of the model.                                                    *)

\* generateSecretKey is called with lengths -NegRange .. MaxLen
MaxLen == 2
NegRange == 2
\* verifyOTP is called with windows -NegRange .. MaxWindow
MaxWindow == 2
\* tokens offered to verifyOTP include the codes of counters current - 0..MaxDrift
MaxDrift == 3

---------------------------------------------------------------------------
(* Program constants.                                                      *)

\* generateOTP(secret, timeStep = 30)
DefaultTimeStep == 30
\* verifyOTP: const timeStep = 30
VerifyTimeStep == 30
\* % 1000000
Modulus == 1000000
\* padStart(6, '0')
Digits == 6
\* Buffer.alloc(8)
BufferSize == 8
\* Date.now() / 1000
MsPerSecond == 1000

\* const chars = 'ABCDEFGHIJKLMNOPQRSTUVWXYZ234567'
chars ==
    << "A", "B", "C", "D", "E", "F", "G", "H", "I", "J", "K", "L", "M",
       "N", "O", "P", "Q", "R", "S", "T", "U", "V", "W", "X", "Y", "Z",
       "2", "3", "4", "5", "6", "7" >>

\* `const time` (generateOTP) and `const time` (verifyOTP): the binding kind
TimeDeclaration == "const"

\* The encodings Buffer.from(string, encoding) of the Node.js runtime knows.
BufferEncodings ==
    { "utf8", "utf-8", "ucs2", "ucs-2", "utf16le", "utf-16le", "latin1",
      "binary", "base64", "base64url", "hex", "ascii" }

\* Buffer.from(secret, 'base32'): the encoding the code names
SecretEncoding == "base32"

---------------------------------------------------------------------------
(* Completion records.                                                     *)

Ok(v) == [threw |-> FALSE, error |-> "", value |-> v]

Throw(e) == [threw |-> TRUE, error |-> e, value |-> <<>>]

\* What a call had built when it ended.
\* buffer: the counter buffer as last written; time: the counter it was written
\* from; examined: the window offsets whose iteration began; computed: the
\* codes computed; draws: the indexes drawn from the random source.
Built(buffer, time, examined, computed) ==
    [buffer |-> buffer, time |-> time, examined |-> examined,
     computed |-> computed, draws |-> <<>>]

NoTrace == Built(<<>>, 0, <<>>, 0)

NoRet == [outcome |-> "none", error |-> "", string |-> <<>>, bool |-> FALSE]

ReturnString(s) == [outcome |-> "return", error |-> "", string |-> s, bool |-> FALSE]

ReturnBool(b) == [outcome |-> "return", error |-> "", string |-> <<>>, bool |-> b]

Thrown(e) == [outcome |-> "throw", error |-> e, string |-> <<>>, bool |-> FALSE]

---------------------------------------------------------------------------
(* generateSecretKey                                                       *)

\* the string "undefined", what `secret += undefined` appends
UndefinedText == << "u", "n", "d", "e", "f", "i", "n", "e", "d" >>

\* crypto.randomInt(min, max): any integer in [min, max)
RandomIntInclusive(min, max) == min .. max

RandomInt(min, max) == min .. (max - 1)

\* chars[randomIndex]: the character, or undefined (rendered by +=) out of range
CharAt(s, index) ==
    IF index >= 0 /\ index < Len(s) THEN << s[index + 1] >> ELSE UndefinedText

\* i < length
LoopConditionInclusive(i, length) == i <= length

LoopCondition(i, length) == i < length

\* for (let i = 0; i < length; i++) { ...; secret += chars[randomIndex]; }
\* return secret;
\* The loop from iteration i on, as the step that completes the call: each
\* iteration draws one index, whichever the random source yields.
RECURSIVE SecretLoop(_, _, _, _)
SecretLoop(i, secret, length, draws) ==
    IF LoopCondition(i, length)
    THEN \E randomIndex \in RandomInt(0, Len(chars)) :
            SecretLoop(i + 1, secret \o CharAt(chars, randomIndex), length,
                       Append(draws, randomIndex))
    ELSE /\ ret' = ReturnString(secret)
         /\ trace' = [NoTrace EXCEPT !.draws = draws]

\* let secret = ''; the loop; return secret
generateSecretKey(length) == SecretLoop(0, <<>>, length, <<>>)

---------------------------------------------------------------------------
(* The statements generateOTP and verifyOTP share.                         *)

\* Math.floor(Date.now() / 1000 / timeStep), for a clock in ms and timeStep > 0
CounterAt(now, timeStep) == (now \div MsPerSecond) \div timeStep

\* Buffer.from(string, encoding): the runtime rejects an encoding it does not
\* know, whatever the string; a decoded buffer is kept as what it was decoded
\* from (the runtime's decoders are not part of this program).
BufferFrom(string, encoding) ==
    IF encoding \in BufferEncodings
    THEN Ok([encoding |-> encoding, text |-> string])
    ELSE Throw("TypeError [ERR_UNKNOWN_ENCODING]")

\* Buffer.alloc(8)
BufferAlloc(n) == [k \in 1 .. n |-> 0]

\* time & 0xff: the low byte of the two's complement of time
BitAndFF(time) == time % 256

\* time >> 8 (sign-propagating); every time of the model lies within int32
ShiftRight8(time) == time \div 256

\* time >>= 8: an assignment to the binding `time`
AssignTime(value) ==
    IF TimeDeclaration = "const"
    THEN Throw("TypeError: Assignment to constant variable.")
    ELSE Ok(value)

\* for (let i = 7; i >= 0; i--) { buffer[i] = time & 0xff; time >>= 8; }
RECURSIVE EncodeLoop(_, _, _)
EncodeLoop(buffer, time, i) ==
    IF i >= 0
    THEN LET written == [buffer EXCEPT ![i + 1] = BitAndFF(time)]
             assigned == AssignTime(ShiftRight8(time))
         IN  IF assigned.threw
             THEN [threw |-> TRUE, error |-> assigned.error, value |-> written]
             ELSE EncodeLoop(written, assigned.value, i - 1)
    ELSE Ok(buffer)

RECURSIVE SumSeq(_)
SumSeq(s) == IF s = <<>> THEN 0 ELSE Head(s) + SumSeq(Tail(s))

\* crypto.createHmac('sha1', key).update(buffer).digest(): 20 bytes that are a
\* function of the key and the message.  SHA-1 belongs to the runtime; the
\* digest is an arbitrary fixed function here.
HmacSha1(key, message) ==
    [j \in 1 .. 20 |->
        (Len(key.text) * 37 + SumSeq(message) * 11 + message[BufferSize] * j + j * 53) % 256]

\* hmac[19] & 0xf
TruncationOffset(hmac) == hmac[20] % 16

\* ((hmac[offset] & 0x7f) << 24) | ((hmac[offset + 1] & 0xff) << 16) |
\* ((hmac[offset + 2] & 0xff) << 8) | (hmac[offset + 3] & 0xff)
Truncate(hmac) ==
    LET offset == TruncationOffset(hmac)
    IN  (hmac[offset + 1] % 128) * 16777216 + hmac[offset + 2] * 65536
            + hmac[offset + 3] * 256 + hmac[offset + 4]

DigitChars == << "0", "1", "2", "3", "4", "5", "6", "7", "8", "9" >>

\* otp.toString(), for otp >= 0
RECURSIVE ToString(_)
ToString(n) ==
    IF n < 10 THEN << DigitChars[n + 1] >>
    ELSE ToString(n \div 10) \o << DigitChars[(n % 10) + 1] >>

\* s.padStart(targetLength, '0')
RECURSIVE PadStart(_, _)
PadStart(s, targetLength) ==
    IF Len(s) >= targetLength THEN s ELSE PadStart(<< "0" >> \o s, targetLength)

\* ((...) % 1000000).toString().padStart(6, '0')
OtpString(hmac) == PadStart(ToString(Truncate(hmac) % Modulus), Digits)

---------------------------------------------------------------------------
(* generateOTP                                                             *)

\* The completion of generateOTP(secret, timeStep) at clock reading now, with
\* what its body had built.
generateOTP(secret, timeStep, now) ==
    LET time == CounterAt(now, timeStep)
        key == BufferFrom(secret, SecretEncoding)
    IN  IF key.threw
        THEN [ret |-> Thrown(key.error),
              trace |-> [NoTrace EXCEPT !.time = time]]
        ELSE LET encoded == EncodeLoop(BufferAlloc(BufferSize), time, 7)
             IN  IF encoded.threw
                 THEN [ret |-> Thrown(encoded.error),
                       trace |-> [NoTrace EXCEPT !.time = time,
                                                 !.buffer = encoded.value]]
                 ELSE [ret |-> ReturnString(OtpString(HmacSha1(key.value, encoded.value))),
                       trace |-> [NoTrace EXCEPT !.time = time,
                                                 !.buffer = encoded.value,
                                                 !.computed = 1]]

---------------------------------------------------------------------------
(* verifyOTP                                                               *)

\* errorWindow <= window
WindowConditionAbs(errorWindow, window) ==
    errorWindow <= (IF window < 0 THEN -window ELSE window)

WindowCondition(errorWindow, window) == errorWindow <= window

\* for (let errorWindow = -window; errorWindow <= window; errorWindow++) {...}
\* return false;
RECURSIVE VerifyLoop(_, _, _, _, _, _, _)
VerifyLoop(secret, token, window, currentTime, errorWindow, examined, computed) ==
    IF WindowCondition(errorWindow, window)
    THEN LET time == currentTime + errorWindow
             began == Append(examined, errorWindow)
             encoded == EncodeLoop(BufferAlloc(BufferSize), time, 7)
         IN  IF encoded.threw
             THEN [ret |-> Thrown(encoded.error),
                   trace |-> Built(encoded.value, time, began, computed)]
             ELSE LET key == BufferFrom(secret, SecretEncoding)
                  IN  IF key.threw
                      THEN [ret |-> Thrown(key.error),
                            trace |-> Built(encoded.value, time, began, computed)]
                      ELSE IF OtpString(HmacSha1(key.value, encoded.value)) = token
                           THEN [ret |-> ReturnBool(TRUE),
                                 trace |-> Built(encoded.value, time, began, computed + 1)]
                           ELSE VerifyLoop(secret, token, window, currentTime,
                                           errorWindow + 1, began, computed + 1)
    ELSE [ret |-> ReturnBool(FALSE),
          trace |-> Built(<<>>, currentTime, examined, computed)]

verifyOTP(secret, token, window, now) ==
    VerifyLoop(secret, token, window, CounterAt(now, VerifyTimeStep),
               -window, <<>>, 0)

---------------------------------------------------------------------------
(* The documented computation (RFC 4226), the reference the calls are       *)
(* compared with.                                                          *)

Range(s) == { s[k] : k \in DOMAIN s }

\* A non-empty string over the RFC 4648 Base32 alphabet.
ValidBase32(secret) == secret # <<>> /\ Range(secret) \subseteq Range(chars)

\* A string of exactly 6 decimal digits.
SixDigits(s) == Len(s) = Digits /\ Range(s) \subseteq Range(DigitChars)

RECURSIVE ShiftBytes(_, _)
ShiftBytes(n, count) == IF count = 0 THEN n ELSE ShiftBytes(n \div 256, count - 1)

\* The big-endian encoding of counter in 8 bytes.
BigEndian8(counter) ==
    [k \in 1 .. BufferSize |-> ShiftBytes(counter, BufferSize - k) % 256]

\* The code of a secret and a counter: the truncated HMAC of the big-endian
\* counter under the decoded secret, modulo 10^6, padded to 6 digits.
computeCode(secret, counter) ==
    OtpString(HmacSha1([encoding |-> SecretEncoding, text |-> secret],
                       BigEndian8(counter)))

---------------------------------------------------------------------------
(* The calls a client makes.                                               *)

Lengths == (-NegRange) .. MaxLen

Windows == (-NegRange) .. MaxWindow

Secrets ==
    { <<>>, << "A" >>, << "J", "B", "S", "W" >>, << "M", "Z", "X", "W", "6", "Y", "T" >>,
      << "a", "1" >>, << "M", "Z", "!" >> }

\* Date.now(), in ms: counters 0, 0, 1, 2, 256 and 65536 at timeStep 30
Clock == { 0, 29999, 59000, 60000, 7680000, 1966080000 }

TimeSteps == { 1, DefaultTimeStep, 60 }

\* Tokens a client may submit whatever the secret: well-formed ones, and ones
\* of a wrong length or with a character that is no digit.
FixedTokens ==
    { << "0", "0", "0", "0", "0", "0" >>, << "2", "8", "7", "0", "8", "2" >>,
      <<>>, << "1", "2", "3", "4", "5" >>, << "1", "2", "3", "4", "5", "6", "7" >>,
      << "1", "2", "a", "4", "5", "6" >>, << "2", "8", "7", "0", "8", " " >> }

\* ... and the codes of the current counter and of the MaxDrift before it.
DriftTokens(secret, now) ==
    { computeCode(secret, CounterAt(now, VerifyTimeStep) - k) :
        k \in { d \in 0 .. MaxDrift : CounterAt(now, VerifyTimeStep) - d >= 0 } }

Call(op, length, secret, timeStep, token, window, now) ==
    [op |-> op, length |-> length, secret |-> secret, timeStep |-> timeStep,
     token |-> token, window |-> window, now |-> now]

\* The calls: the class keeps nothing from one call to the next, so a
\* behaviour is one call, from its arguments to its completion.
Calls ==
    { Call("generateSecretKey", length, <<>>, 0, <<>>, 0, 0) : length \in Lengths }
    \cup { Call("generateOTP", 0, secret, timeStep, <<>>, 0, now) :
            secret \in Secrets, timeStep \in TimeSteps, now \in Clock }
    \cup UNION { { Call("verifyOTP", 0, secret, VerifyTimeStep, token, window, now) :
                    token \in FixedTokens \cup DriftTokens(secret, now),
                    window \in Windows } :
                 secret \in Secrets, now \in Clock }
    \cup { Call("roundTrip", 0, secret, DefaultTimeStep, <<>>, window, now) :
            secret \in Secrets, window \in 0 .. MaxWindow, now \in Clock }

Init ==
    /\ call \in Calls
    /\ ret = NoRet
    /\ trace = NoTrace

\* otp.generateSecretKey(length)
CallGenerateSecretKey ==
    /\ call.op = "generateSecretKey"
    /\ ret.outcome = "none"
    /\ generateSecretKey(call.length)
    /\ UNCHANGED call

\* otp.generateOTP(secret, timeStep)
CallGenerateOTP ==
    /\ call.op = "generateOTP"
    /\ ret.outcome = "none"
    /\ LET done == generateOTP(call.secret, call.timeStep, call.now)
       IN  /\ ret' = done.ret
           /\ trace' = done.trace
    /\ UNCHANGED call

\* otp.verifyOTP(secret, token, window)
CallVerifyOTP ==
    /\ call.op = "verifyOTP"
    /\ ret.outcome = "none"
    /\ LET done == verifyOTP(call.secret, call.token, call.window, call.now)
       IN  /\ ret' = done.ret
           /\ trace' = done.trace
    /\ UNCHANGED call

\* const token = otp.generateOTP(secretKey);
\* const isValid = otp.verifyOTP(secretKey, token, window);
\* both at one clock reading; call.token becomes the token generated
CallRoundTrip ==
    /\ call.op = "roundTrip"
    /\ ret.outcome = "none"
    /\ LET generated == generateOTP(call.secret, call.timeStep, call.now)
       IN  IF generated.ret.outcome = "throw"
           THEN /\ ret' = generated.ret
                /\ trace' = generated.trace
                /\ UNCHANGED call
           ELSE LET done == verifyOTP(call.secret, generated.ret.string,
                                      call.window, call.now)
                IN  /\ ret' = done.ret
                    /\ trace' = done.trace
                    /\ call' = [call EXCEPT !.token = generated.ret.string]

Next ==
    \/ CallGenerateSecretKey
    \/ CallGenerateOTP
    \/ CallVerifyOTP
    \/ CallRoundTrip

Spec == Init /\ [][Next]_vars

---------------------------------------------------------------------------
(* Properties.                                                             *)

Done == ret.outcome # "none"

\* The offsets -window, -window + 1, ..., +window, in that order.
Offsets(window) == [k \in 1 .. (2 * window + 1) |-> k - window - 1]

\* The counter the call derives from its clock reading.
CurrentCounter == CounterAt(call.now, call.timeStep)

\* C1 (round trip): generateOTP(secret) with the default timeStep, then
\* verifyOTP(secret, token, 0) with the token it returned, at one clock
\* reading and for a valid secret, ends with verifyOTP returning true.
C1_RoundTrip ==
    (Done /\ call.op = "roundTrip" /\ call.window = 0 /\ ValidBase32(call.secret))
        => (ret.outcome = "return" /\ ret.bool = TRUE)

\* C2 (window correctness): when the token is the code of counter current - k
\* (k >= 0) and window >= 0, verifyOTP returns true if k <= window and false
\* if k > window.
C2_WindowCorrectness ==
    \A k \in 0 .. MaxDrift :
        (/\ Done
         /\ call.op = "verifyOTP"
         /\ call.window >= 0
         /\ ValidBase32(call.secret)
         /\ CurrentCounter - k >= 0
         /\ call.token = computeCode(call.secret, CurrentCounter - k))
            => (ret.outcome = "return" /\ ret.bool = (k <= call.window))

\* C3 (format): for a valid secret and a positive timeStep, generateOTP returns
\* a string of exactly 6 decimal digits, the truncated HMAC of the counter
\* modulo 10^6 padded with '0'.
C3_Format ==
    (Done /\ call.op = "generateOTP" /\ ValidBase32(call.secret))
        => (/\ ret.outcome = "return"
            /\ SixDigits(ret.string)
            /\ ret.string = computeCode(call.secret, CurrentCounter))

\* C4 (alphabet compliance): for a positive length n, generateSecretKey(n)
\* returns a string of exactly n characters, each of the Base32 alphabet, and
\* every index it drew lies in [0, 32).
C4_AlphabetCompliance ==
    (Done /\ call.op = "generateSecretKey" /\ call.length > 0)
        => (/\ ret.outcome = "return"
            /\ Len(ret.string) = call.length
            /\ Range(ret.string) \subseteq Range(chars)
            /\ Len(trace.draws) = call.length
            /\ \A k \in DOMAIN trace.draws :
                    trace.draws[k] >= 0 /\ trace.draws[k] < 32)

\* C4 witness: a key of MaxLen >= 2 characters was returned, made of the first
\* and the last character of the alphabet.
C4_Witness ==
    /\ call.op = "generateSecretKey"
    /\ call.length >= 2
    /\ ret.outcome = "return"
    /\ Len(ret.string) = call.length
    /\ ret.string[1] = "A"
    /\ ret.string[2] = "7"

\* C5 (malformed token): for a valid secret, a window >= 0 and a token that is
\* not a string of 6 digits, verifyOTP does not throw and returns false.
C5_MalformedToken ==
    (/\ Done
     /\ call.op = "verifyOTP"
     /\ call.window >= 0
     /\ ValidBase32(call.secret)
     /\ ~SixDigits(call.token))
        => (ret.outcome = "return" /\ ret.bool = FALSE)

\* C6 as stated: generateSecretKey(length) with length <= 0 fails with
\* InvalidArgument and returns no string.
C6_NonPositiveLengthFails ==
    (Done /\ call.op = "generateSecretKey" /\ call.length <= 0)
        => (ret.outcome = "throw" /\ ret.error = "InvalidArgument")

\* C6 as amended: generateSecretKey(length) with length <= 0 raises no error;
\* it draws nothing from the random source and returns the empty string.
C6_NonPositiveLengthReturnsEmpty ==
    (Done /\ call.op = "generateSecretKey" /\ call.length <= 0)
        => (ret.outcome = "return" /\ ret.string = <<>> /\ trace.draws = <<>>)

\* C6 witness: a call with a negative length has returned.
C6_Witness ==
    /\ call.op = "generateSecretKey"
    /\ call.length < 0
    /\ ret.outcome = "return"
    /\ ret.string = <<>>

\* C7 as stated: verifyOTP with a negative window fails with InvalidArgument
\* and returns no boolean.
C7_NegativeWindowFails ==
    (Done /\ call.op = "verifyOTP" /\ call.window < 0)
        => (ret.outcome = "throw" /\ ret.error = "InvalidArgument")

\* C7 as amended: verifyOTP with a negative window raises no error; it
\* examines no candidate counter, computes no code and returns false, whatever
\* the secret and the token.
C7_NegativeWindowReturnsFalse ==
    (Done /\ call.op = "verifyOTP" /\ call.window < 0)
        => (/\ ret.outcome = "return"
            /\ ret.bool = FALSE
            /\ trace.examined = <<>>
            /\ trace.computed = 0)

\* C7 witness: a call with a negative window, a valid secret and the code of
\* the current counter as its token has returned false.
C7_Witness ==
    /\ call.op = "verifyOTP"
    /\ call.window < 0
    /\ ValidBase32(call.secret)
    /\ call.token = computeCode(call.secret, CurrentCounter)
    /\ ret.outcome = "return"
    /\ ret.bool = FALSE

\* C8 (secret validation): generateOTP and verifyOTP (window >= 0) fail with
\* InvalidSecret exactly when the secret is empty or has a character outside
\* the Base32 alphabet; for a valid secret the decode step raises no error.
C8_SecretValidation ==
    (Done /\ call.op \in { "generateOTP", "verifyOTP" } /\ call.window >= 0)
        => (/\ (ret.outcome = "throw" /\ ret.error = "InvalidSecret")
                    <=> ~ValidBase32(call.secret)
            /\ ValidBase32(call.secret)
                    => ret.error # "TypeError [ERR_UNKNOWN_ENCODING]")

\* C9 (counter encoding): the 8-byte buffer a call has allocated for a counter
\* >= 0 is, when the call ends, the big-endian encoding of that counter.
C9_CounterEncoding ==
    (/\ Done
     /\ call.op \in { "generateOTP", "verifyOTP", "roundTrip" }
     /\ trace.buffer # <<>>
     /\ trace.time >= 0)
        => trace.buffer = BigEndian8(trace.time)

\* C10 (candidate order and exhaustion): for window w >= 0, verifyOTP examines
\* the offsets -w, ..., +w in ascending order, returns true at the first whose
\* code equals the token, and returns false only after all 2w+1 were examined;
\* it ends after at most 2w+1 code computations.
C10_CandidateOrder ==
    (Done /\ call.op = "verifyOTP" /\ call.window >= 0 /\ ValidBase32(call.secret))
        => (/\ ret.outcome = "return"
            /\ Len(trace.examined) <= 2 * call.window + 1
            /\ trace.examined = SubSeq(Offsets(call.window), 1, Len(trace.examined))
            /\ trace.computed = Len(trace.examined)
            /\ \A k \in 1 .. Len(trace.examined) :
                    (computeCode(call.secret, CurrentCounter + trace.examined[k]) = call.token)
                        <=> (ret.bool /\ k = Len(trace.examined))
            /\ ~ret.bool => Len(trace.examined) = 2 * call.window + 1)

===========================================================================
